---- MODULE Spec2Model ----
(***************************************************************************)
(* pitemp.py: a daemon that loads its configuration from the environment,  *)
(* then forever sleeps, reads a DHT22 sensor and indexes the reading into  *)
(* Elasticsearch.                                                          *)
(*                                                                         *)
(* Python strings read from the environment are sequences of one-character *)
(* strings, so that int() can be modelled by what it parses.  An Optional  *)
(* value is a sequence of length 0 (None) or 1.                            *)
(***************************************************************************)
EXTENDS Integers, Sequences, FiniteSets, TLC

VARIABLES
    env,          \* os.environ restricted to the six names: a function on the names that are set
    pc,           \* position of the process: main, run_init, sleep, read, publish, exited, crashed
    exit_code,    \* exit status once pc is exited or crashed, NoExit before
    exc,          \* name of the exception that ended the process, "" if none
    cfg_result,   \* Optional outcome of get_config()
    entered_run,  \* run() has been called
    es,           \* Optional Elasticsearch client of run()
    creates,      \* sequence of the statuses of the es.indices.create calls issued
    clock,        \* simulated time, in seconds
    blocked,      \* seconds spent so far inside the sensor driver and the store client
    dht,          \* Optional last return of Adafruit_DHT.read_retry
    loc,          \* Optional locals (rc, hum_rh, temp_c, ts) of run()
    sensor_data,  \* Optional last SensorReading constructed
    request,      \* Optional last es.index request
    response,     \* Optional last answer of es.index
    publish_rc,   \* Optional last return value of publish_data
    count,        \* per-event counters of the loop
    pub_times,    \* Optional clock of the last es.index call, and of the one before
    last_op       \* the step taken last

vars == <<env, pc, exit_code, exc, cfg_result, entered_run, es, creates, clock,
          blocked, dht, loc, sensor_data, request, response, publish_rc, count,
          pub_times, last_op>>

----------------------------------------------------------------------------
\* Bounds of the model.

\* Loop iterations (sleeps) explored.
MaxIter == 3
\* Longest time, in seconds, one driver or store call blocks.
MaxBlock == 1

----------------------------------------------------------------------------
\* Optional values and Python strings.

None == <<>>
Some(x) == <<x>>
IsSome(o) == Len(o) = 1
The(o) == o[1]

NoExit == -1

Digits == {"0", "1", "2", "3", "4", "5", "6", "7", "8", "9"}

DigitVal(c) ==
    CASE c = "0" -> 0 [] c = "1" -> 1 [] c = "2" -> 2 [] c = "3" -> 3
      [] c = "4" -> 4 [] c = "5" -> 5 [] c = "6" -> 6 [] c = "7" -> 7
      [] c = "8" -> 8 [] c = "9" -> 9

DigitChar(d) ==
    CASE d = 0 -> "0" [] d = 1 -> "1" [] d = 2 -> "2" [] d = 3 -> "3"
      [] d = 4 -> "4" [] d = 5 -> "5" [] d = 6 -> "6" [] d = 7 -> "7"
      [] d = 8 -> "8" [] d = 9 -> "9"

RECURSIVE LStrip(_)
LStrip(s) == IF s # <<>> /\ Head(s) = " " THEN LStrip(Tail(s)) ELSE s

RECURSIVE RStrip(_)
RStrip(s) ==
    IF s # <<>> /\ s[Len(s)] = " " THEN RStrip(SubSeq(s, 1, Len(s) - 1)) ELSE s

Strip(s) == RStrip(LStrip(s))

\* The digits-and-underscores part of an integer literal, sign removed.
Unsigned(s) ==
    LET t == Strip(s)
    IN IF t # <<>> /\ Head(t) \in {"+", "-"} THEN Tail(t) ELSE t

Negative(s) ==
    LET t == Strip(s)
    IN t # <<>> /\ Head(t) = "-"

\* A conversion that takes the empty string for 0.
ParsesAsIntOrEmpty(s) ==
    LET u == Unsigned(s)
    IN \/ Strip(s) = <<>>
       \/ /\ u # <<>>
          /\ \A i \in 1..Len(u) : u[i] \in Digits \cup {"_"}
          /\ u[1] \in Digits
          /\ u[Len(u)] \in Digits
          /\ \A i \in 1..(Len(u) - 1) : ~(u[i] = "_" /\ u[i + 1] = "_")

\* A conversion that skips underscores wherever they stand.
ParsesAsIntAnyUnderscore(s) ==
    LET u == Unsigned(s)
    IN /\ u # <<>>
       /\ \A i \in 1..Len(u) : u[i] \in Digits \cup {"_"}
       /\ \E i \in 1..Len(u) : u[i] \in Digits

\* int(s) succeeds: optional blanks, an optional sign, then digits with single
\* underscores between them.
ParsesAsInt(s) ==
    LET u == Unsigned(s)
    IN /\ u # <<>>
       /\ \A i \in 1..Len(u) : u[i] \in Digits \cup {"_"}
       /\ u[1] \in Digits
       /\ u[Len(u)] \in Digits
       /\ \A i \in 1..(Len(u) - 1) : ~(u[i] = "_" /\ u[i + 1] = "_")

RECURSIVE DigitsValue(_, _)
DigitsValue(u, acc) ==
    IF u = <<>> THEN acc
    ELSE IF Head(u) = "_" THEN DigitsValue(Tail(u), acc)
    ELSE DigitsValue(Tail(u), 10 * acc + DigitVal(Head(u)))

\* int(s) for a string that parses.
IntValue(s) ==
    LET v == DigitsValue(Unsigned(s), 0)
    IN IF Negative(s) THEN 0 - v ELSE v

RECURSIVE NatToStr(_)
NatToStr(n) ==
    IF n < 10 THEN <<DigitChar(n)>>
    ELSE Append(NatToStr(n \div 10), DigitChar(n % 10))

\* "{}".format(n) for an int.
IntToStr(n) == IF n < 0 THEN <<"-">> \o NatToStr(0 - n) ELSE NatToStr(n)

\* "{}:{}".format(host, port)
HostPort(host, port) == host \o <<":">> \o IntToStr(port)

----------------------------------------------------------------------------
\* Configuration.

EnvNames == {"ES_HOST", "ES_PORT", "ES_INDEX", "DOC_TAG", "PUB_INTVL", "GPIO_PIN"}
NumericNames == {"ES_PORT", "PUB_INTVL", "GPIO_PIN"}

\* os.environ.get(name, default)
environ_get(e, name, default) == IF name \in DOMAIN e THEN e[name] ELSE default

\* Adafruit_DHT.DHT22
SENSOR == 22

AppConfig(es_host, es_port, es_index, doc_tag, pub_intvl, gpio_pin, sensor) ==
    [es_host |-> es_host, es_port |-> es_port, es_index |-> es_index,
     doc_tag |-> doc_tag, pub_intvl |-> pub_intvl, gpio_pin |-> gpio_pin,
     sensor |-> sensor]

Returned(rc, cfg) == [kind |-> "return", rc |-> rc, cfg |-> cfg, exc |-> ""]
Raised(name) == [kind |-> "raise", rc |-> NoExit, cfg |-> None, exc |-> name]

\* get_config(): the outcome of one call in environment e.  The handler of
\* the ES_PORT conversion formats es_port, which the failed assignment left
\* unbound, so it raises instead of returning.
get_config(e) ==
    LET es_host      == environ_get(e, "ES_HOST", <<>>)
        es_port_str  == environ_get(e, "ES_PORT", <<>>)
        es_index     == environ_get(e, "ES_INDEX", <<>>)
        doc_tag      == environ_get(e, "DOC_TAG", <<>>)
        interval_str == environ_get(e, "PUB_INTVL", <<>>)
        gpio_pin_str == environ_get(e, "GPIO_PIN", <<>>)
    IN IF es_host = <<>> THEN Returned(1, None)
       ELSE IF es_port_str = <<>> THEN Returned(1, None)
       ELSE IF ~ParsesAsInt(es_port_str) THEN Raised("UnboundLocalError")
       ELSE IF es_index = <<>> THEN Returned(1, None)
       ELSE IF doc_tag = <<>> THEN Returned(1, None)
       \* the emptiness test of PUB_INTVL looks at doc_tag, not at interval_str
       ELSE IF doc_tag = <<>> THEN Returned(1, None)
       \* so an empty interval_str reaches int(), whose ValueError is handled
       ELSE IF ~ParsesAsInt(interval_str) THEN Returned(1, None)
       ELSE IF gpio_pin_str = <<>> THEN Returned(1, None)
       ELSE IF ~ParsesAsInt(gpio_pin_str) THEN Returned(1, None)
       ELSE Returned(0, Some(AppConfig(es_host, IntValue(es_port_str), es_index,
                                       doc_tag, IntValue(interval_str),
                                       IntValue(gpio_pin_str), SENSOR)))

\* The configuration run() was called with.
config == The(The(cfg_result).cfg)

----------------------------------------------------------------------------
\* Environments.

Unset == <<"<unset>">>

\* The environment in which the six names hold h, p, i, g, v, n (Unset: not set).
MkEnv(h, p, i, g, v, n) ==
    LET t == [x \in EnvNames |->
                CASE x = "ES_HOST" -> h [] x = "ES_PORT" -> p [] x = "ES_INDEX" -> i
                  [] x = "DOC_TAG" -> g [] x = "PUB_INTVL" -> v [] x = "GPIO_PIN" -> n]
    IN [x \in {y \in EnvNames : t[y] # Unset} |-> t[x]]

StrSamples == {Unset, <<>>, <<"p", "i">>}

NumSamples ==
    {Unset, <<>>, <<"1">>, <<"8", "0">>, <<"-", "1">>, <<"+", "2">>,
     <<" ", "3", " ">>, <<"1", "_", "0">>, <<"_", "1">>, <<"1", "_", "_", "0">>,
     <<"1", "a">>, <<"a">>, <<"1", ".", "5">>, <<"-">>, <<" ">>}

\* The environments the loop is explored in: two location tags, intervals of
\* 1, 2, 0 and -1 seconds, and a few that get_config rejects.
LoopEnvs ==
    {MkEnv(<<"p", "i">>, p, <<"t">>, g, v, <<"4">>) :
        p \in {<<"8", "0">>},
        g \in {<<"g">>, <<"k">>},
        v \in {<<"1">>, <<"2">>, <<"0">>, <<"-", "1">>}}
    \cup {MkEnv(<<"p", "i">>, <<"x">>, <<"t">>, <<"g">>, <<"1">>, <<"4">>),
          MkEnv(<<"p", "i">>, <<"8", "0">>, <<"t">>, <<"g">>, <<>>, <<"4">>),
          MkEnv(<<"p", "i">>, <<"8", "0">>, <<"t">>, Unset, <<"1">>, <<"4">>)}

----------------------------------------------------------------------------
\* The process entry point.

\* What __main__ does with the outcome r of get_config(): an exception that
\* escapes ends the interpreter with status 1, a non-zero rc is sys.exit(1),
\* and otherwise run() is called.
main_outcome(r) ==
    IF r.kind = "raise"
    THEN [pc |-> "crashed", exit_code |-> 1, exc |-> r.exc, entered_run |-> FALSE]
    ELSE IF r.rc # 0
    THEN [pc |-> "exited", exit_code |-> 1, exc |-> "", entered_run |-> FALSE]
    ELSE [pc |-> "run_init", exit_code |-> NoExit, exc |-> "", entered_run |-> TRUE]

Main ==
    /\ pc = "main"
    /\ LET r == get_config(env)
           o == main_outcome(r)
       IN /\ cfg_result' = Some(r)
          /\ pc' = o.pc
          /\ exit_code' = o.exit_code
          /\ exc' = o.exc
          /\ entered_run' = o.entered_run
    /\ last_op' = "main"
    /\ UNCHANGED <<env, es, creates, clock, blocked, dht, loc, sensor_data,
                   request, response, publish_rc, count, pub_times>>

----------------------------------------------------------------------------
\* run(): set-up.

\* Elasticsearch(hosts=["{}:{}".format(config.es_host, config.es_port)])
Elasticsearch(cfg) == [hosts |-> <<HostPort(cfg.es_host, cfg.es_port)>>]

\* HTTP statuses the store may answer es.indices.create with, and Error for a
\* call that fails without an answer.
Error == 0
CreateStatuses == {200, 400, 503, Error}

\* es.indices.create(index=..., ignore=400) raises unless the status is a
\* success or the ignored one.
create_raises(status) == ~(status \in 200..299 \/ status = 400)

RunInit ==
    /\ pc = "run_init"
    /\ es' = Some(Elasticsearch(config))
    /\ \E st \in CreateStatuses :
          /\ creates' = Append(creates, [index |-> config.es_index, status |-> st])
          /\ IF create_raises(st)
             THEN pc' = "crashed" /\ exit_code' = 1 /\ exc' = "TransportError"
             ELSE pc' = "sleep" /\ UNCHANGED <<exit_code, exc>>
    /\ last_op' = "run_init"
    /\ UNCHANGED <<env, cfg_result, entered_run, clock, blocked, dht, loc,
                   sensor_data, request, response, publish_rc, count, pub_times>>

----------------------------------------------------------------------------
\* run(): the loop.

\* A loop that sleeps at its top and at its bottom.
after_sleep_twice(now, secs) == now + secs + secs

\* The clock after time.sleep(secs) called at now.
after_sleep(now, secs) == now + secs

\* time.sleep raises ValueError for a negative length.
sleep_raises(secs) == secs < 0

Sleep ==
    /\ pc = "sleep"
    /\ count.sleep < MaxIter
    /\ IF sleep_raises(config.pub_intvl)
       THEN /\ pc' = "crashed" /\ exit_code' = 1 /\ exc' = "ValueError"
            /\ UNCHANGED <<clock, count>>
       ELSE /\ pc' = "read"
            /\ clock' = after_sleep(clock, config.pub_intvl)
            /\ count' = [count EXCEPT !.sleep = @ + 1]
            /\ UNCHANGED <<exit_code, exc>>
    /\ last_op' = "sleep"
    /\ UNCHANGED <<env, cfg_result, entered_run, es, creates, blocked, dht, loc,
                   sensor_data, request, response, publish_rc, pub_times>>

\* Readings of the driver, in tenths (552: 55.2 %RH, 213: 21.3 C).
HumVals == {0, 552}
TempVals == {213}
OptHum == {None} \cup {Some(h) : h \in HumVals}
OptTemp == {None} \cup {Some(t) : t \in TempVals}

\* read_sensor(): the tuple returned when Adafruit_DHT.read_retry returned
\* (hum_rh, temp_c) and datetime.now() is now.
read_sensor(hum_rh, temp_c, now) ==
    IF hum_rh = None \/ temp_c = None
    THEN [rc |-> 1, hum_rh |-> 0, temp_c |-> 0, ts |-> now]
    ELSE [rc |-> 0, hum_rh |-> The(hum_rh), temp_c |-> The(temp_c), ts |-> now]

\* A loop without the continue: it publishes whatever read_sensor returned.
after_read_no_continue(rc) == "publish"

\* A loop that reads again at once when the read failed.
after_read_retry(rc) == IF rc # 0 THEN "read" ELSE "publish"

\* Where the loop goes after read_sensor returned rc.
after_read(rc) == IF rc # 0 THEN "sleep" ELSE "publish"

ReadSensor ==
    /\ pc = "read"
    /\ \E h \in OptHum, t \in OptTemp, d \in 0..MaxBlock :
          LET r == read_sensor(h, t, clock + d)
          IN /\ dht' = Some([hum_rh |-> h, temp_c |-> t])
             /\ clock' = clock + d
             /\ blocked' = blocked + d
             /\ loc' = Some(r)
             /\ pc' = after_read(r.rc)
             /\ count' = [count EXCEPT !.read = @ + 1,
                                       !.ok = IF r.rc = 0 THEN @ + 1 ELSE @]
    /\ last_op' = "read"
    /\ UNCHANGED <<env, exit_code, exc, cfg_result, entered_run, es, creates,
                   sensor_data, request, response, publish_rc, pub_times>>

\* A reading with the humidity and the temperature swapped.
SensorReadingSwapped(hum_rh, temp_c, timestamp, location) ==
    [hum_rh |-> temp_c, temp_c |-> hum_rh, timestamp |-> timestamp,
     location |-> location]

\* SensorReading(hum_rh=..., temp_c=..., timestamp=..., location=...)
SensorReading(hum_rh, temp_c, timestamp, location) ==
    [hum_rh |-> hum_rh, temp_c |-> temp_c, timestamp |-> timestamp,
     location |-> location]

\* The request es.index(index=doc_index, doc_type='sensor_data', body=sensor_data.dict())
index_request(doc_index, reading) ==
    [index |-> doc_index, doc_type |-> "sensor_data",
     body |-> [hum_rh |-> reading.hum_rh, temp_c |-> reading.temp_c,
               timestamp |-> reading.timestamp, location |-> reading.location]]

\* Answers of the store to an index request: dicts with or without a result.
StoreAnswers ==
    {[version |-> 1, result |-> "created"], [version |-> 2, result |-> "updated"],
     [version |-> 1, result |-> ""], [version |-> 1]}

\* result.get(key, default)
dict_get(d, key, default) == IF key \in DOMAIN d THEN d[key] ELSE default

\* A publish_data that takes an answer without a result for a success.
publish_status_default_created(result) ==
    IF "result" \in DOMAIN result /\ result["result"] # "created" THEN 1 ELSE 0

\* publish_data(): the value returned for the store's answer.
publish_status(result) == IF dict_get(result, "result", "") # "created" THEN 1 ELSE 0

\* A loop that sends the document again when publish_data failed.
after_publish_retry(rc) == IF rc # 0 THEN "publish" ELSE "sleep"

\* Where the loop goes after publish_data returned rc: the value is dropped.
after_publish(rc) == "sleep"

Publish ==
    /\ pc = "publish"
    /\ LET l == The(loc)
           reading == SensorReading(l.hum_rh, l.temp_c, l.ts, config.doc_tag)
       IN /\ sensor_data' = Some(reading)
          /\ request' = Some(index_request(config.es_index, reading))
    /\ pub_times' = [last |-> Some(clock), prev |-> pub_times.last]
    /\ \E d \in 0..MaxBlock :
          /\ clock' = clock + d
          /\ blocked' = blocked + d
    /\ \/ \E a \in StoreAnswers :
             /\ response' = Some(a)
             /\ publish_rc' = Some(publish_status(a))
             /\ pc' = after_publish(publish_status(a))
             /\ count' = [count EXCEPT !.built = @ + 1, !.index = @ + 1,
                             !.created = IF a = [version |-> 1, result |-> "created"]
                                         THEN @ + 1 ELSE @]
             /\ UNCHANGED <<exit_code, exc>>
       \/ /\ response' = None
          /\ publish_rc' = None
          /\ pc' = "crashed" /\ exit_code' = 1 /\ exc' = "ConnectionError"
          /\ count' = [count EXCEPT !.built = @ + 1, !.index = @ + 1]
    /\ last_op' = "publish"
    /\ UNCHANGED <<env, cfg_result, entered_run, es, creates, dht, loc>>

----------------------------------------------------------------------------
\* Specifications.

Start ==
    /\ pc = "main"
    /\ exit_code = NoExit
    /\ exc = ""
    /\ cfg_result = None
    /\ entered_run = FALSE
    /\ es = None
    /\ creates = <<>>
    /\ clock = 0
    /\ blocked = 0
    /\ dht = None
    /\ loc = None
    /\ sensor_data = None
    /\ request = None
    /\ response = None
    /\ publish_rc = None
    /\ count = [sleep |-> 0, read |-> 0, ok |-> 0, built |-> 0, index |-> 0,
                created |-> 0]
    /\ pub_times = [last |-> None, prev |-> None]
    /\ last_op = "start"

Init == env \in LoopEnvs /\ Start

Next == Main \/ RunInit \/ Sleep \/ ReadSensor \/ Publish

Spec == Init /\ [][Next]_vars

\* Configuration loading alone, over every combination of the sampled values.
InitCfg ==
    /\ \E h \in StrSamples, p \in NumSamples, i \in StrSamples, g \in StrSamples,
          v \in NumSamples, n \in NumSamples : env = MkEnv(h, p, i, g, v, n)
    /\ Start

NextCfg == Main

SpecCfg == InitCfg /\ [][NextCfg]_vars
----------------------------------------------------------------------------
\* Vocabulary of the properties.

\* The sampled values Python's int() accepts, and the non-empty ones it rejects.
IntStrs ==
    {<<"1">>, <<"2">>, <<"0">>, <<"8", "0">>, <<"4">>, <<"-", "1">>, <<"+", "2">>,
     <<" ", "3", " ">>, <<"1", "_", "0">>}
NonIntStrs ==
    {<<"_", "1">>, <<"1", "_", "_", "0">>, <<"1", "a">>, <<"a">>, <<"x">>,
     <<"1", ".", "5">>, <<"-">>, <<" ">>}

Blank(n) == n \notin DOMAIN env \/ env[n] = <<>>
Valid(n) ==
    /\ n \in DOMAIN env
    /\ IF n \in NumericNames THEN env[n] \in IntStrs ELSE env[n] # <<>>
OthersValid(n) == \A m \in EnvNames \ {n} : Valid(m)

LoopPcs == {"sleep", "read", "publish"}

\* run() has passed its set-up and entered the loop.
LoopEntered == Len(creates) = 1 /\ creates[1].status \in {200, 400}

\* The interval the environment configures, for the intervals of LoopEnvs.
ConfiguredInterval ==
    CASE env["PUB_INTVL"] = <<"1">> -> 1
      [] env["PUB_INTVL"] = <<"2">> -> 2
      [] env["PUB_INTVL"] = <<"0">> -> 0
      [] env["PUB_INTVL"] = <<"-", "1">> -> -1

----------------------------------------------------------------------------
\* Properties of configuration loading (under SpecCfg).

\* C1: when one of the six variables is unset or empty and the other five
\* are valid, get_config returns (1, None) and the process exits with code 1
\* without calling run().
C1_BlankVariableExits1 ==
    \A n \in EnvNames :
        (Blank(n) /\ OthersValid(n) /\ pc # "main")
            => /\ pc = "exited"
               /\ exit_code = 1
               /\ ~entered_run
               /\ cfg_result = Some(Returned(1, None))

\* An empty PUB_INTVL, the variable whose emptiness test looks at DOC_TAG,
\* among five valid values, after the process has exited.
C1_Witness ==
    /\ "PUB_INTVL" \in DOMAIN env /\ env["PUB_INTVL"] = <<>>
    /\ OthersValid("PUB_INTVL")
    /\ pc = "exited" /\ exit_code = 1

\* C2: when one numeric variable holds a non-empty string that is no integer
\* and every other variable is valid, the process ends with exit code 1, the
\* code of a missing value, and run() is never called.
C2_NonNumericExits1 ==
    \A n \in NumericNames :
        (n \in DOMAIN env /\ env[n] \in NonIntStrs /\ OthersValid(n) /\ pc # "main")
            => /\ pc \in {"exited", "crashed"}
               /\ exit_code = 1
               /\ ~entered_run

\* A non-numeric ES_PORT among five valid values, after the process has ended.
C2_Witness ==
    /\ "ES_PORT" \in DOMAIN env /\ env["ES_PORT"] = <<"1", "a">>
    /\ OthersValid("ES_PORT")
    /\ pc # "main" /\ exit_code = 1

\* C3: get_config always returns, never raises, and returns either
\* (0, config) or (1, None).
C3_GetConfigAlwaysReturns ==
    pc # "main"
        => LET r == The(cfg_result)
           IN /\ r.kind = "return"
              /\ \/ r.rc = 0 /\ IsSome(r.cfg)
                 \/ r.rc = 1 /\ r.cfg = None

----------------------------------------------------------------------------
\* Properties of the loop (under Spec).

\* C4: a step of the loop in which the driver returned no humidity or no
\* temperature constructs no SensorReading, issues no index request and
\* leaves the loop at the wait of the next iteration; the wait that follows
\* issues none either.
C4_FailedReadSkipsPublish ==
    [][/\ (pc = "read" /\ (The(dht').hum_rh = None \/ The(dht').temp_c = None))
            => /\ The(loc').rc # 0
               /\ pc' = "sleep"
               /\ sensor_data' = sensor_data
               /\ request' = request
               /\ count'.built = count.built
               /\ count'.index = count.index
       /\ pc = "sleep"
            => /\ pc' \in {"read", "crashed"}
               /\ request' = request
               /\ count'.index = count.index]_vars

\* A failed read that followed a published one: the loop is back at the wait.
C4_Witness ==
    /\ last_op = "read" /\ pc = "sleep"
    /\ The(dht).hum_rh = None /\ The(dht).temp_c # None
    /\ count.index = 1 /\ count.read = 2

\* C5: when the store answers an index request with a result other than
\* "created", or with no result, publish_data returns 1 and the loop goes to
\* the wait of the next iteration with its client and configuration intact,
\* as it does after a "created" answer, for which publish_data returns 0.
C5_NotCreatedReportsFailureAndContinues ==
    [][(pc = "publish" /\ response' # None)
            => /\ publish_rc' =
                    Some(IF The(response') = [version |-> 1, result |-> "created"]
                         THEN 0 ELSE 1)
               /\ pc' = "sleep"
               /\ exit_code' = NoExit
               /\ <<es, cfg_result, creates, env>>' = <<es, cfg_result, creates, env>>]_vars

\* After an answer without a result the loop has waited and read again and is
\* about to publish the next reading.
C5_Witness ==
    /\ response = Some([version |-> 1])
    /\ publish_rc = Some(1)
    /\ last_op = "read" /\ pc = "publish"

\* C6: once the loop is entered the process never ends, whatever the sensor
\* and the store do (stated for the non-negative intervals, where the sensor
\* and the store are all that can fail).
C6_LoopNeverEnds ==
    (LoopEntered /\ ConfiguredInterval >= 0) => pc \in LoopPcs

\* C7: with PUB_INTVL=1, a sensor that has always succeeded, a store that has
\* always answered "created" and a clock that only time.sleep advances, the
\* n-th document is published at second n: 3 documents in a run of 3 seconds,
\* consecutive ones 1 second apart.
C7_Premise ==
    /\ LoopEntered
    /\ env["PUB_INTVL"] = <<"1">>
    /\ count.read = count.ok
    /\ count.index = count.created
    /\ blocked = 0

C7_ThreeDocumentsInThreeSeconds ==
    C7_Premise
        => /\ pc \in LoopPcs
           /\ pc = "sleep" => count.index = clock
           /\ pc \in {"read", "publish"} => count.index = clock - 1
           /\ (clock = 3 /\ pc = "sleep") => count.index = 3
           /\ clock <= 3 => count.index <= 3
           /\ count.index >= 1 => The(pub_times.last) = count.index
           /\ count.index >= 2 => The(pub_times.last) - The(pub_times.prev) = 1

\* The end of the third second: three documents, the last at second 3.
C7_Witness ==
    /\ C7_Premise
    /\ clock = 3 /\ pc = "sleep"
    /\ count.index = 3
    /\ pub_times = [last |-> Some(3), prev |-> Some(2)]

\* C8: the document of an index request holds the humidity and temperature
\* the driver returned in that iteration, the time of that read and the
\* configured DOC_TAG.
C8_DocumentIsTheReading ==
    last_op = "publish"
        => /\ IsSome(request) /\ IsSome(sensor_data)
           /\ The(request).body =
                 [hum_rh |-> The(The(dht).hum_rh), temp_c |-> The(The(dht).temp_c),
                  timestamp |-> The(pub_times.last), location |-> env["DOC_TAG"]]
           /\ The(request).index = env["ES_INDEX"]
           /\ The(sensor_data) = The(request).body

\* A second published reading, of 55.2 %RH and 21.3 C, tagged "g".
C8_Witness ==
    /\ last_op = "publish" /\ count.index = 2
    /\ The(request).body.hum_rh = 552 /\ The(request).body.temp_c = 213
    /\ The(request).body.location = <<"g">>
    /\ The(request).body.timestamp > 1

\* C9: the index requests issued are as many as the successful reads, one
\* for each: a failed publish is not sent again.
C9_OneRequestPerSuccessfulRead ==
    /\ count.built = count.index
    /\ count.ok = IF pc = "publish" THEN count.index + 1 ELSE count.index
    /\ count.created <= count.index

\* Two successful reads whose first publish failed: two requests in all.
C9_Witness ==
    /\ pc = "sleep" /\ last_op = "publish"
    /\ count.ok = 2 /\ count.index = 2 /\ count.created = 1
    /\ publish_rc = Some(0)

\* C10: the client is built and the index ensured exactly once, before the
\* first wait, a 400 answer (the index exists) being no error; every read
\* follows a wait of the configured interval at once; the index is not
\* ensured again.
C10_Order ==
    /\ [](/\ Len(creates) <= 1
          /\ (pc \in LoopPcs \/ count.sleep > 0)
                => /\ LoopEntered
                   /\ IsSome(es)
                   /\ creates[1].index = env["ES_INDEX"]
                   /\ clock = count.sleep * ConfiguredInterval + blocked
          /\ pc = "read" => (last_op = "sleep" /\ count.sleep = count.read + 1)
          /\ pc \in {"sleep", "publish"} => count.sleep = count.read
          /\ (LoopEntered /\ creates[1].status = 400) => pc # "exited")
    /\ [][/\ pc' = "read" => pc = "sleep"
          /\ (pc' = "sleep" /\ pc # "sleep") => pc \in {"run_init", "read", "publish"}
          /\ pc' = "publish" => pc = "read"
          /\ creates' # creates => (pc = "run_init" /\ count.sleep = 0)
          /\ pc = "sleep" /\ pc' = "read"
                => clock' = clock + ConfiguredInterval]_vars

\* The index existed already (400) and the loop is in its second iteration.
C10_Witness ==
    /\ creates = <<[index |-> <<"t">>, status |-> 400]>>
    /\ pc = "publish" /\ count.read = 2 /\ count.sleep = 2
====
